---- MODULE Spec2Model ----
(***************************************************************************)
(* Model of the FairHire anonymous applicant API (Express + Mongoose).     *)
(* Strings are sequences of one-character strings so that trim,            *)
(* lower-casing, splitting and the regular expressions of the server act   *)
(* on their characters.  Every request handler is cut at its awaits: the   *)
(* code between two awaits runs without interruption on the event loop,    *)
(* and each store operation (findOne, save, find, countDocuments) is one   *)
(* atomic step of the database.                                            *)
(***************************************************************************)
EXTENDS Integers, Sequences, FiniteSets, TLC

\* ------------------------------------------------------------------ bounds
MaxClock == 1
MaxStore == 2

\* ------------------------------------------------------- string primitives
Space == " "

\* String.prototype.trim
RECURSIVE TrimLeft(_)
TrimLeft(s) == IF s = <<>> THEN <<>>
               ELSE IF Head(s) = Space THEN TrimLeft(Tail(s)) ELSE s

RECURSIVE TrimRight(_)
TrimRight(s) == IF s = <<>> THEN <<>>
                ELSE IF s[Len(s)] = Space THEN TrimRight(SubSeq(s, 1, Len(s) - 1)) ELSE s

Trim(s) == TrimRight(TrimLeft(s))

Lowers == <<"a", "b", "c", "d", "e", "f", "g", "h", "i", "j", "k", "l", "m",
            "n", "o", "p", "q", "r", "s", "t", "u", "v", "w", "x", "y", "z">>
Uppers == <<"A", "B", "C", "D", "E", "F", "G", "H", "I", "J", "K", "L", "M",
            "N", "O", "P", "Q", "R", "S", "T", "U", "V", "W", "X", "Y", "Z">>

LowerOf(c) == IF \E i \in 1..26 : Uppers[i] = c
              THEN Lowers[CHOOSE i \in 1..26 : Uppers[i] = c] ELSE c

UpperOf(c) == IF \E i \in 1..26 : Lowers[i] = c
              THEN Uppers[CHOOSE i \in 1..26 : Lowers[i] = c] ELSE c

\* String.prototype.toLowerCase / toUpperCase
RECURSIVE ToLowerCase(_)
ToLowerCase(s) == IF s = <<>> THEN <<>> ELSE <<LowerOf(Head(s))>> \o ToLowerCase(Tail(s))

RECURSIVE ToUpperCase(_)
ToUpperCase(s) == IF s = <<>> THEN <<>> ELSE <<UpperOf(Head(s))>> \o ToUpperCase(Tail(s))

\* String.prototype.split(',')
RECURSIVE SplitFrom(_, _)
SplitFrom(s, cur) == IF s = <<>> THEN <<cur>>
                     ELSE IF Head(s) = "," THEN <<cur>> \o SplitFrom(Tail(s), <<>>)
                     ELSE SplitFrom(Tail(s), Append(cur, Head(s)))

SplitComma(s) == SplitFrom(s, <<>>)

\* .map(skill => skill.trim())
RECURSIVE MapTrim(_)
MapTrim(xs) == IF xs = <<>> THEN <<>> ELSE <<Trim(Head(xs))>> \o MapTrim(Tail(xs))

NonEmptyStr(x) == Len(x) > 0

\* Number.prototype.toString(36)
Base36 == <<"0", "1", "2", "3", "4", "5", "6", "7", "8", "9">> \o Lowers

RECURSIVE ToString36(_)
ToString36(n) == IF n < 36 THEN <<Base36[n + 1]>>
                 ELSE ToString36(n \div 36) \o <<Base36[(n % 36) + 1]>>

\* ---------------------------------------------------------------- validation
NoSpaceAt(s) == Len(s) > 0 /\ \A i \in 1..Len(s) : s[i] # Space /\ s[i] # "@"

\* /^[^\s@]+@[^\s@]+\.[^\s@]+$/
validateEmail(email) ==
    \E i \in 1..Len(email) : \E j \in 1..Len(email) :
        /\ i < j
        /\ email[i] = "@"
        /\ email[j] = "."
        /\ NoSpaceAt(SubSeq(email, 1, i - 1))
        /\ NoSpaceAt(SubSeq(email, i + 1, j - 1))
        /\ NoSpaceAt(SubSeq(email, j + 1, Len(email)))

Digits == {"0", "1", "2", "3", "4", "5", "6", "7", "8", "9"}
PhoneNoise(c) == c \in {Space, "-", "(", ")"}
KeepPhoneChar(c) == ~PhoneNoise(c)

\* /^[\+]?[1-9][\d]{0,15}$/ on phone.replace(/[\s\-\(\)]/g, '')
validatePhone(phone) ==
    LET stripped == SelectSeq(phone, KeepPhoneChar)
        rest == IF stripped # <<>> /\ Head(stripped) = "+" THEN Tail(stripped) ELSE stripped
    IN /\ Len(rest) >= 1
       /\ Len(rest) <= 16
       /\ rest[1] \in Digits \ {"0"}
       /\ \A i \in 1..Len(rest) : rest[i] \in Digits

\* ------------------------------------------------------------ request bodies
\* skills arrives either as a string or as an array of strings (JSON body)
SkillsStr(s) == [isArray |-> FALSE, str |-> s, arr |-> <<>>]
SkillsArr(a) == [isArray |-> TRUE, str |-> <<>>, arr |-> a]

BaseBody == [name |-> <<"J", "o">>,
             email |-> <<"a", "@", "b", ".", "c">>,
             phone |-> <<"+", "1", "2">>,
             position |-> <<"c", "e">>,
             experience |-> 3,
             skills |-> SkillsStr(<<"g", ",", " ", "s">>),
             education |-> <<"B", "S">>]

Names == {<<"J", "o">>, <<"K", "o", " ">>, <<" ">>, <<>>}
Emails == {<<"a", "@", "b", ".", "c">>, <<"A", "@", "b", ".", "c">>}
BadEmails == {<<"a", "@", "b">>, <<" ", "a", "@", "b", ".", "c">>}
Phones == {<<"+", "1", "2">>, <<"0", "1">>}
Positions == {<<"c", "e">>, <<"c", "e", " ">>, <<"c", "+", "a">>, <<"c", "+", "+">>}
Experiences == {-1, 0, 3, 50, 51}
SkillSets == {SkillsStr(<<"g", ",", " ", "s">>), SkillsStr(<<",", " ">>), SkillsStr(<<>>),
              SkillsArr(<<>>), SkillsArr(<< <<" ", "g">>, <<>> >>)}

\* the submissions tried: the base body with one field changed, and the
\* pairs (email, position) that normalize to the same or to different keys
OneFieldBodies ==
    {[BaseBody EXCEPT !.name = n] : n \in Names}
    \cup {[BaseBody EXCEPT !.email = e] : e \in BadEmails}
    \cup {[BaseBody EXCEPT !.phone = ph] : ph \in Phones}
    \cup {[BaseBody EXCEPT !.experience = x] : x \in Experiences}
    \cup {[BaseBody EXCEPT !.skills = sk] : sk \in SkillSets}

KeyBodies ==
    {[BaseBody EXCEPT !.email = e, !.position = po] : e \in Emails, po \in Positions}

Bodies == OneFieldBodies \cup KeyBodies

\* the submissions of the concurrent runs: two that normalize to the same
\* (email, position) with other fields differing, one with another position,
\* one the schema rejects at save and one the validation rejects
RaceBodies ==
    {BaseBody,
     [BaseBody EXCEPT !.email = <<"A", "@", "b", ".", "c">>, !.position = <<"c", "e", " ">>,
                      !.name = <<"K", "o", " ">>, !.skills = SkillsArr(<< <<" ", "g">>, <<>> >>)],
     [BaseBody EXCEPT !.position = <<"c", "+", "a">>],
     [BaseBody EXCEPT !.name = <<" ">>],
     [BaseBody EXCEPT !.experience = 51]}

\* the random suffix of an id; ids then differ by their timestamp, which
\* yields both colliding and distinct ids
Rands == {<<"x">>}

\* ------------------------------------------------------------------- state
Submitters == {"s1", "s2"}

VARIABLES store, now, post, rev

vars == <<store, now, post, rev>>

NoResp == [status |-> 0, error |-> "", anonymousId |-> <<>>]
ErrorResp(code, msg) == [status |-> code, error |-> msg, anonymousId |-> <<>>]
CreatedResp(id) == [status |-> 201, error |-> "", anonymousId |-> id]

\* saves counts the store writes the current request has attempted
Idle == [pc |-> "idle", body |-> <<>>, data |-> <<>>, saves |-> 0, resp |-> NoResp]

\* the reviewer's request: kind is "list" or "contact"
NoRevResp == [status |-> 0, error |-> "", data |-> <<>>, pagination |-> <<>>]
RevIdle == [pc |-> "idle", kind |-> "", query |-> <<>>, id |-> <<>>, items |-> <<>>,
            resp |-> NoRevResp]

Init ==
    /\ store = <<>>
    /\ now = 0
    /\ post = [p \in Submitters |-> Idle]
    /\ rev = RevIdle

\* Date.now(): the clock never goes back; two readings may be equal
Tick ==
    /\ now < MaxClock
    /\ now' = now + 1
    /\ UNCHANGED <<store, post, rev>>

\* ------------------------------------------------------ POST /api/applicants
generateAnonymousId(t, random) ==
    ToUpperCase(<<"A", "P", "P">> \o ToString36(t) \o random)

\* !skills : an empty string is falsy, an array is always truthy
SkillsFalsy(sk) == ~sk.isArray /\ sk.str = <<>>

MissingField(b) ==
    \/ b.name = <<>>
    \/ b.email = <<>>
    \/ b.phone = <<>>
    \/ b.position = <<>>
    \/ b.experience = 0
    \/ SkillsFalsy(b.skills)
    \/ b.education = <<>>

ExperienceOutOfRange(x) == x < 0 \/ x > 50

NormalizeSkills(sk) ==
    IF sk.isArray THEN sk.arr
    ELSE SelectSeq(MapTrim(SplitComma(sk.str)), NonEmptyStr)

ApplicantData(b, id) ==
    [name |-> Trim(b.name),
     email |-> ToLowerCase(Trim(b.email)),
     phone |-> Trim(b.phone),
     position |-> Trim(b.position),
     experience |-> b.experience,
     skills |-> NormalizeSkills(b.skills),
     education |-> Trim(b.education),
     anonymousId |-> id]

\* the response of the synchronous validation, NoResp when it passes
ValidationResp(b) ==
    IF MissingField(b) THEN ErrorResp(400, "All fields are required")
    ELSE IF ~validateEmail(b.email) THEN ErrorResp(400, "Invalid email format")
    ELSE IF ~validatePhone(b.phone) THEN ErrorResp(400, "Invalid phone number format")
    ELSE IF ExperienceOutOfRange(b.experience)
         THEN ErrorResp(400, "Experience must be between 0 and 50 years")
    ELSE NoResp

InFlight == Cardinality({p \in Submitters : post[p].pc \in {"find", "save"}})

\* the handler up to its first await: validation, applicantData, findOne issued
Receive(p, b, random) ==
    /\ post[p].pc = "idle"
    /\ IF ValidationResp(b) # NoResp
       THEN post' = [post EXCEPT ![p] = [pc |-> "idle", body |-> <<b>>, data |-> <<>>,
                                         saves |-> 0, resp |-> ValidationResp(b)]]
       ELSE /\ Len(store) + InFlight < MaxStore
            /\ post' = [post EXCEPT ![p] =
                   [pc |-> "find", body |-> <<b>>,
                    data |-> <<ApplicantData(b, generateAnonymousId(now, random))>>,
                    saves |-> 0, resp |-> NoResp]]
    /\ UNCHANGED <<store, now, rev>>

\* Applicant.findOne({ email, position })
FindDuplicate(docs, d) ==
    \E i \in 1..Len(docs) : docs[i].email = d.email /\ docs[i].position = d.position

\* new Applicant(applicantData): schema setters and defaults
NewApplicant(d, t) ==
    [anonymousId |-> d.anonymousId,
     name |-> Trim(d.name),
     email |-> ToLowerCase(Trim(d.email)),
     phone |-> Trim(d.phone),
     position |-> Trim(d.position),
     experience |-> d.experience,
     skills |-> MapTrim(d.skills),
     education |-> Trim(d.education),
     submittedAt |-> t,
     status |-> "pending"]

\* findOne answers; on a hit 409, otherwise the document is built and save issued
Find(p) ==
    /\ post[p].pc = "find"
    /\ LET d == post[p].data[1] IN
       IF FindDuplicate(store, d)
       THEN post' = [post EXCEPT ![p] = [pc |-> "idle", body |-> post[p].body, data |-> <<>>,
                       saves |-> 0, resp |-> ErrorResp(409, "You have already applied for this position")]]
       ELSE post' = [post EXCEPT ![p] = [pc |-> "save", body |-> post[p].body,
                       data |-> <<NewApplicant(d, now)>>, saves |-> 0, resp |-> NoResp]]
    /\ UNCHANGED <<store, now, rev>>

SchemaValid_Skip(doc) == TRUE

\* document validation run by save(): required paths and min
SchemaValid(doc) ==
    /\ doc.anonymousId # <<>>
    /\ doc.name # <<>>
    /\ doc.email # <<>>
    /\ doc.phone # <<>>
    /\ doc.position # <<>>
    /\ doc.education # <<>>
    /\ doc.experience >= 0

UniqueIndexViolated_NoIndex(docs, doc) == FALSE

\* the unique index on anonymousId (E11000 on violation)
UniqueIndexViolated(docs, doc) ==
    \E i \in 1..Len(docs) : docs[i].anonymousId = doc.anonymousId

\* applicant.save() answers: 201, or the catch block's 500
Save(p) ==
    /\ post[p].pc = "save"
    /\ LET doc == post[p].data[1] IN
       IF ~SchemaValid(doc)
       THEN /\ post' = [post EXCEPT ![p] = [pc |-> "idle", body |-> post[p].body, data |-> <<>>,
                          saves |-> post[p].saves, resp |-> ErrorResp(500, "Internal server error")]]
            /\ store' = store
       ELSE IF UniqueIndexViolated(store, doc)
       THEN /\ post' = [post EXCEPT ![p] = [pc |-> "idle", body |-> post[p].body, data |-> <<>>,
                          saves |-> post[p].saves + 1, resp |-> ErrorResp(500, "Duplicate application detected. Please try again.")]]
            /\ store' = store
       ELSE /\ post' = [post EXCEPT ![p] = [pc |-> "idle", body |-> post[p].body, data |-> <<>>,
                          saves |-> post[p].saves + 1, resp |-> CreatedResp(doc.anonymousId)]]
            /\ store' = Append(store, doc)
    /\ UNCHANGED <<now, rev>>

Next ==
    \/ Tick
    \/ \E p \in Submitters, b \in RaceBodies, r \in Rands : Receive(p, b, r)
    \/ \E p \in Submitters : Find(p)
    \/ \E p \in Submitters : Save(p)

Spec == Init /\ [][Next]_vars

\* one client submitting one request after the other, every body tried
NextSolo ==
    \/ Tick
    \/ \E b \in Bodies, r \in Rands : Receive("s1", b, r)
    \/ Find("s1")
    \/ Save("s1")

SpecSolo == Init /\ [][NextSolo]_vars

\* ------------------------------------------------------- GET /api/applicants
\* new RegExp(pattern, 'i') over letters, spaces and the quantifier "+":
\* a "+" with nothing to repeat is a SyntaxError
RegExpThrows(pat) ==
    \E i \in 1..Len(pat) : pat[i] = "+" /\ (i = 1 \/ pat[i - 1] = "+")

\* the pattern as a sequence of atoms, each a character and whether "+" follows
RECURSIVE RegExpAtoms(_)
RegExpAtoms(pat) ==
    IF pat = <<>> THEN <<>>
    ELSE IF Len(pat) >= 2 /\ pat[2] = "+"
         THEN <<[ch |-> pat[1], plus |-> TRUE]>> \o RegExpAtoms(SubSeq(pat, 3, Len(pat)))
         ELSE <<[ch |-> pat[1], plus |-> FALSE]>> \o RegExpAtoms(Tail(pat))

RECURSIVE MatchHere(_, _)
MatchHere(atoms, s) ==
    IF atoms = <<>> THEN TRUE
    ELSE IF s = <<>> THEN FALSE
    ELSE IF LowerOf(Head(s)) # LowerOf(Head(atoms).ch) THEN FALSE
    ELSE IF Head(atoms).plus
         THEN MatchHere(atoms, Tail(s)) \/ MatchHere(Tail(atoms), Tail(s))
         ELSE MatchHere(Tail(atoms), Tail(s))

\* RegExp.prototype.test as the store applies it: a match anywhere, case ignored
RegExpTest(pat, s) ==
    \E k \in 0..Len(s) : MatchHere(RegExpAtoms(pat), SubSeq(s, k + 1, Len(s)))

DigitValue(c) == CHOOSE n \in 0..9 : Base36[n + 1] = c

RECURSIVE DigitsValue(_)
DigitsValue(s) == IF s = <<>> THEN 0
                  ELSE 10 * DigitsValue(SubSeq(s, 1, Len(s) - 1)) + DigitValue(s[Len(s)])

RECURSIVE LeadingDigits(_)
LeadingDigits(s) == IF s = <<>> \/ Head(s) \notin Digits THEN <<>>
                    ELSE <<Head(s)>> \o LeadingDigits(Tail(s))

\* parseInt: <<n>> for a number, <<>> for NaN
ParseInt(s) ==
    LET t == TrimLeft(s)
        neg == t # <<>> /\ Head(t) = "-"
        ds == LeadingDigits(IF neg THEN Tail(t) ELSE t)
    IN IF ds = <<>> THEN <<>>
       ELSE <<IF neg THEN 0 - DigitsValue(ds) ELSE DigitsValue(ds)>>

NaN == <<>>

\* Number(string): <<n>> for a numeral, NaN otherwise
ToNumber(s) ==
    LET t == Trim(s)
        neg == t # <<>> /\ Head(t) = "-"
        ds == IF neg THEN Tail(t) ELSE t
    IN IF ds = <<>> \/ LeadingDigits(ds) # ds THEN NaN
       ELSE <<IF neg THEN 0 - DigitsValue(ds) ELSE DigitsValue(ds)>>

\* Math.max / Math.min: NaN when an argument is NaN
MathMax(a, b) == IF a = NaN \/ b = NaN THEN NaN ELSE <<IF a[1] >= b[1] THEN a[1] ELSE b[1]>>
MathMin(a, b) == IF a = NaN \/ b = NaN THEN NaN ELSE <<IF a[1] <= b[1] THEN a[1] ELSE b[1]>>

\* req.query: every parameter is a string, <<>> when the parameter is absent
NoQuery == [position |-> <<>>, minExperience |-> <<>>, maxExperience |-> <<>>,
            skills |-> <<>>, page |-> <<>>, limit |-> <<>>]

QueryPositions == {<<"c", "e">>, <<"C">>, <<"c", "+", "a">>, <<"c", "+", "+">>}
QuerySkills == {<<"G">>, <<"s", ",", " ", "g">>, <<"+">>}

\* the list requests tried: one parameter set, and filters combined with
\* each other and with paging
Queries ==
    {NoQuery}
    \cup {[NoQuery EXCEPT !.position = po] : po \in QueryPositions}
    \cup {[NoQuery EXCEPT !.skills = sk] : sk \in QuerySkills}
    \cup {[NoQuery EXCEPT !.minExperience = <<"3">>], [NoQuery EXCEPT !.maxExperience = <<"3">>],
          [NoQuery EXCEPT !.minExperience = <<"x">>],
          [NoQuery EXCEPT !.minExperience = <<"4">>, !.maxExperience = <<"5", "0">>],
          [NoQuery EXCEPT !.page = <<"2">>, !.limit = <<"1">>],
          [NoQuery EXCEPT !.limit = <<"1">>],
          [NoQuery EXCEPT !.position = <<"c", "e">>, !.skills = <<"G">>, !.minExperience = <<"3">>,
                          !.maxExperience = <<"3">>, !.page = <<"1">>, !.limit = <<"2">>]}

DefaultPage == 1
DefaultLimit == 10
MaxLimit == 50

PageNum(q) == MathMax(<<1>>, IF q.page = <<>> THEN <<DefaultPage>> ELSE ParseInt(q.page))
LimitNum(q) ==
    MathMin(<<MaxLimit>>, MathMax(<<1>>, IF q.limit = <<>> THEN <<DefaultLimit>> ELSE ParseInt(q.limit)))

SkillsArray(q) == MapTrim(SplitComma(q.skills))

\* building the filter throws when a pattern is not a regular expression
FilterThrows(q) ==
    \/ q.position # <<>> /\ RegExpThrows(q.position)
    \/ q.skills # <<>> /\ \E k \in 1..Len(SkillsArray(q)) : RegExpThrows(SkillsArray(q)[k])

\* the query is cast by the schema: NaN for the Number path is a CastError
CastFails(q) ==
    \/ q.minExperience # <<>> /\ ToNumber(q.minExperience) = NaN
    \/ q.maxExperience # <<>> /\ ToNumber(q.maxExperience) = NaN

\* the filter object applied to one document
Matches(doc, q) ==
    /\ q.position # <<>> => RegExpTest(q.position, doc.position)
    /\ q.minExperience # <<>> => doc.experience >= ToNumber(q.minExperience)[1]
    /\ q.maxExperience # <<>> => doc.experience <= ToNumber(q.maxExperience)[1]
    /\ q.skills # <<>> =>
          \E k \in 1..Len(SkillsArray(q)) : \E e \in 1..Len(doc.skills) :
              RegExpTest(SkillsArray(q)[k], doc.skills[e])

ListProjection_WithEmail ==
    {"anonymousId", "position", "experience", "skills", "education", "submittedAt", "status",
     "email"}

\* the projection of find(): the anonymized view
ListProjection ==
    {"anonymousId", "position", "experience", "skills", "education", "submittedAt", "status"}

Project(doc, fields) == [f \in fields |-> doc[f]]

RECURSIVE ProjectAll(_, _)
ProjectAll(docs, fields) ==
    IF docs = <<>> THEN <<>>
    ELSE <<Project(Head(docs), fields)>> \o ProjectAll(Tail(docs), fields)

Filtered(docs, q) == SelectSeq(docs, LAMBDA d : Matches(d, q))

\* .sort({ submittedAt: -1 }): every order of the documents with no earlier
\* document before a later one; the order of equal dates is the store's choice
SortedOrders(docs) ==
    {ord \in [1..Len(docs) -> 1..Len(docs)] :
        /\ \A i, j \in 1..Len(docs) : i # j => ord[i] # ord[j]
        /\ \A i, j \in 1..Len(docs) :
              i < j => docs[ord[i]].submittedAt >= docs[ord[j]].submittedAt}

RECURSIVE Reorder(_, _, _)
Reorder(docs, ord, i) ==
    IF i > Len(docs) THEN <<>> ELSE <<docs[ord[i]]>> \o Reorder(docs, ord, i + 1)

\* .skip(skip).limit(limitNum)
SkipLimit(docs, skip, lim) ==
    IF skip >= Len(docs) THEN <<>>
    ELSE SubSeq(docs, skip + 1, IF skip + lim <= Len(docs) THEN skip + lim ELSE Len(docs))

Ceil(a, b) == (a + b - 1) \div b

\* skip = (pageNum - 1) * limitNum
SkipNum(q) ==
    IF PageNum(q) = NaN \/ LimitNum(q) = NaN THEN NaN
    ELSE <<(PageNum(q)[1] - 1) * LimitNum(q)[1]>>

\* Math.ceil(total / limitNum)
TotalPages(total, lim) == IF lim = NaN THEN NaN ELSE <<Ceil(total, lim[1])>>

\* a comparison with NaN is false
LessThan(a, b) == a # NaN /\ b # NaN /\ a[1] < b[1]

\* the handler up to its first await: the filter and the paging are computed
ListReceive(q) ==
    /\ rev.pc = "idle"
    /\ IF FilterThrows(q) \/ CastFails(q)
       THEN rev' = [pc |-> "idle", kind |-> "list", query |-> <<q>>, id |-> <<>>, items |-> <<>>,
                    resp |-> [status |-> 500, error |-> "Internal server error",
                              data |-> <<>>, pagination |-> <<>>]]
       ELSE rev' = [pc |-> "find", kind |-> "list", query |-> <<q>>, id |-> <<>>, items |-> <<>>,
                    resp |-> NoRevResp]
    /\ UNCHANGED <<store, now, post>>

\* Applicant.find(filter, projection).sort().skip().limit() answers. A skip
\* or limit that is NaN is, depending on the driver, either dropped from the
\* command (no skip, no limit) or refused by the store (the catch block's 500)
ListFind ==
    /\ rev.pc = "find"
    /\ LET q == rev.query[1]
           docs == Filtered(store, q)
           skip == IF SkipNum(q) = NaN THEN 0 ELSE SkipNum(q)[1]
           lim == IF LimitNum(q) = NaN THEN Len(docs) ELSE LimitNum(q)[1]
       IN \/ \E ord \in SortedOrders(docs) :
               rev' = [rev EXCEPT !.pc = "count",
                         !.items = ProjectAll(SkipLimit(Reorder(docs, ord, 1), skip, lim),
                                              ListProjection)]
          \/ /\ SkipNum(q) = NaN \/ LimitNum(q) = NaN
             /\ rev' = [rev EXCEPT !.pc = "idle",
                         !.resp = [status |-> 500, error |-> "Internal server error",
                                   data |-> <<>>, pagination |-> <<>>]]
    /\ UNCHANGED <<store, now, post>>

\* Applicant.countDocuments(filter) answers and the response is sent; a
\* number is <<n>> in the response and NaN is <<>> (null in JSON)
ListCount ==
    /\ rev.pc = "count"
    /\ LET q == rev.query[1]
           total == Len(Filtered(store, q))
           totalPages == TotalPages(total, LimitNum(q))
       IN rev' = [rev EXCEPT !.pc = "idle", !.items = <<>>,
                    !.resp = [status |-> 200, error |-> "", data |-> rev.items,
                              pagination |-> <<[page |-> PageNum(q),
                                                limit |-> LimitNum(q),
                                                total |-> total,
                                                totalPages |-> totalPages,
                                                hasNext |-> LessThan(PageNum(q), totalPages),
                                                hasPrev |-> LessThan(<<1>>, PageNum(q))]>>]]
    /\ UNCHANGED <<store, now, post>>

\* --------------------------------------------------- GET /api/applicants/:id
IsPrefix(a, b) == Len(a) <= Len(b) /\ SubSeq(b, 1, Len(a)) = a

IdMatches_Prefix(stored, id) == IsPrefix(id, stored)

\* { anonymousId: id }: equality of strings
IdMatches(stored, id) == stored = id

ContactProjection_WithPosition == {"name", "email", "phone", "position"}

\* the projection of findOne(): the contact view
ContactProjection == {"name", "email", "phone"}

FindById(docs, id) == SelectSeq(docs, LAMBDA d : IdMatches(d.anonymousId, id))

AllIds == {generateAnonymousId(t, r) : t \in 0..MaxClock, r \in Rands}

\* the identifiers asked for: issued ones, their prefixes and substrings,
\* their lower-case forms, and patterns
ContactIds ==
    AllIds
    \cup {SubSeq(id, 1, Len(id) - 1) : id \in AllIds}
    \cup {SubSeq(id, 1, 3) : id \in AllIds}
    \cup {Tail(id) : id \in AllIds}
    \cup {ToLowerCase(id) : id \in AllIds}
    \cup {<<".", "*">>, <<"A", "P", "P", ".", "X">>}

\* findOne({ anonymousId: id }, projection) answers and the response is sent
GetContact(id) ==
    /\ rev.pc = "idle"
    /\ LET found == FindById(store, id) IN
       IF found = <<>>
       THEN rev' = [pc |-> "idle", kind |-> "contact", query |-> <<>>, id |-> id, items |-> <<>>,
                    resp |-> [status |-> 404, error |-> "Applicant not found",
                              data |-> <<>>, pagination |-> <<>>]]
       ELSE rev' = [pc |-> "idle", kind |-> "contact", query |-> <<>>, id |-> id, items |-> <<>>,
                    resp |-> [status |-> 200, error |-> "",
                              data |-> <<Project(Head(found), ContactProjection)>>,
                              pagination |-> <<>>]]
    /\ UNCHANGED <<store, now, post>>

\* the submissions of the review runs: positions with and without "+",
\* two that share a key, skills of both forms
ReviewBodies ==
    {BaseBody,
     [BaseBody EXCEPT !.email = <<"A", "@", "b", ".", "c">>, !.position = <<"c", "e", " ">>,
                      !.name = <<"K", "o", " ">>, !.skills = SkillsArr(<< <<" ", "g">>, <<>> >>)],
     [BaseBody EXCEPT !.position = <<"c", "+", "a">>, !.experience = 50],
     [BaseBody EXCEPT !.position = <<"c", "+", "+">>, !.name = <<"K", "o", " ">>],
     [BaseBody EXCEPT !.phone = <<"0", "1">>]}

\* one applicant client and one reviewer
NextReview ==
    \/ Tick
    \/ \E b \in ReviewBodies, r \in Rands : Receive("s1", b, r)
    \/ Find("s1")
    \/ Save("s1")
    \/ \E q \in Queries : ListReceive(q)
    \/ ListFind
    \/ ListCount
    \/ \E id \in ContactIds : GetContact(id)

SpecReview == Init /\ [][NextReview]_vars

\* ------------------------------------------------------------ paging runs
\* the list requests of the paging runs: absent, zero, negative, small, large
\* and non-numeric page and limit, alone and with a filter
PagingQueries ==
    {NoQuery,
     [NoQuery EXCEPT !.page = <<"0">>],
     [NoQuery EXCEPT !.page = <<"-", "1">>],
     [NoQuery EXCEPT !.page = <<"2">>],
     [NoQuery EXCEPT !.limit = <<"1", "0", "0", "0">>],
     [NoQuery EXCEPT !.limit = <<"0">>],
     [NoQuery EXCEPT !.limit = <<"1">>],
     [NoQuery EXCEPT !.page = <<"2">>, !.limit = <<"1">>],
     [NoQuery EXCEPT !.page = <<"3">>, !.limit = <<"1">>],
     [NoQuery EXCEPT !.position = <<"c", "e">>, !.page = <<"2">>, !.limit = <<"1">>],
     [NoQuery EXCEPT !.page = <<"x">>],
     [NoQuery EXCEPT !.limit = <<"x">>, !.page = <<"2">>]}

\* the submissions of the paging runs: three different (email, position) keys
PagingBodies ==
    {BaseBody,
     [BaseBody EXCEPT !.position = <<"c", "+", "a">>],
     [BaseBody EXCEPT !.email = <<"A", "@", "b", ".", "c">>, !.position = <<"C", "e">>]}

\* one applicant client and one reviewer who lists
NextPaging ==
    \/ Tick
    \/ \E b \in PagingBodies, r \in Rands : Receive("s1", b, r)
    \/ Find("s1")
    \/ Save("s1")
    \/ \E q \in PagingQueries : ListReceive(q)
    \/ ListFind
    \/ ListCount

SpecPaging == Init /\ [][NextPaging]_vars

\* ------------------------------------------ PATCH /api/applicants/:id/status
validStatuses == {"pending", "reviewed", "contacted", "rejected"}

InvalidStatus_NoEnum(status) == status = <<>> \/ status[1] = ""

\* !status || !validStatuses.includes(status); an absent status is <<>>
InvalidStatus(status) ==
    status = <<>> \/ status[1] = "" \/ status[1] \notin validStatuses

\* the update document { status }
SetStatus(doc, status) == [doc EXCEPT !.status = status]

\* findOneAndUpdate({ anonymousId: id }, { status }): the first match is updated
RECURSIVE UpdateFirst(_, _, _)
UpdateFirst(docs, id, status) ==
    IF docs = <<>> THEN <<>>
    ELSE IF IdMatches(Head(docs).anonymousId, id)
         THEN <<SetStatus(Head(docs), status)>> \o Tail(docs)
         ELSE <<Head(docs)>> \o UpdateFirst(Tail(docs), id, status)

Returned_Old(before, after) == before

\* { new: true }: the document after the update is the one returned
Returned(before, after) == after

\* fields: { anonymousId: 1, status: 1, _id: 0 }
StatusProjection == {"anonymousId", "status"}

\* the statuses sent: none, empty, the four valid ones, and others
PatchStatuses ==
    {<<>>, <<"">>, <<"hired">>} \cup {<<v>> : v \in validStatuses}

\* the identifiers sent: issued ones, and one that is never issued
PatchIds == AllIds \cup {<<"A", "P", "P">>}

\* the whole handler: the status check, then findOneAndUpdate answers and the
\* response is sent
PatchStatus(id, status) ==
    /\ rev.pc = "idle"
    /\ LET found == FindById(store, id)
           base == [pc |-> "idle", kind |-> "status", query |-> <<[status |-> status]>>,
                    id |-> id, items |-> <<>>, resp |-> NoRevResp]
       IN IF InvalidStatus(status)
          THEN /\ rev' = [base EXCEPT !.resp =
                            [status |-> 400,
                             error |-> "Valid status is required: pending, reviewed, contacted, rejected",
                             data |-> <<>>, pagination |-> <<>>]]
               /\ store' = store
          ELSE IF found = <<>>
          THEN /\ rev' = [base EXCEPT !.resp =
                            [status |-> 404, error |-> "Applicant not found",
                             data |-> <<>>, pagination |-> <<>>]]
               /\ store' = store
          ELSE /\ store' = UpdateFirst(store, id, status[1])
               /\ rev' = [base EXCEPT !.resp =
                            [status |-> 200, error |-> "",
                             data |-> <<Project(Returned(Head(found),
                                                         SetStatus(Head(found), status[1])),
                                                StatusProjection)>>,
                             pagination |-> <<>>]]
    /\ UNCHANGED <<now, post>>

\* ------------------------------------------------------------ GET /api/stats
StatsLimit == 10

\* $group: { _id: '$field', count: { $sum: 1 } }
Group(docs, field) ==
    {[id |-> v, count |-> Cardinality({i \in 1..Len(docs) : docs[i][field] = v})] :
        v \in {docs[i][field] : i \in 1..Len(docs)}}

\* $sort: { count: -1 }: every order of the groups with no smaller count first
SortedByCount(groups) ==
    {s \in [1..Cardinality(groups) -> groups] :
        /\ \A i, j \in 1..Cardinality(groups) : i # j => s[i] # s[j]
        /\ \A i, j \in 1..Cardinality(groups) : i < j => s[i].count >= s[j].count}

\* $limit
FirstN(s, n) == SubSeq(s, 1, IF Len(s) < n THEN Len(s) ELSE n)

\* Applicant.countDocuments() answers
StatsCount ==
    /\ rev.pc = "idle"
    /\ rev' = [pc |-> "byStatus", kind |-> "stats", query |-> <<>>, id |-> <<>>,
               items |-> <<[totalApplications |-> Len(store)]>>, resp |-> NoRevResp]
    /\ UNCHANGED <<store, now, post>>

\* the aggregate grouped by status answers
StatsByStatus ==
    /\ rev.pc = "byStatus"
    /\ rev' = [rev EXCEPT !.pc = "byPosition",
                 !.items = <<[totalApplications |-> rev.items[1].totalApplications,
                              applicationsByStatus |-> Group(store, "status")]>>]
    /\ UNCHANGED <<store, now, post>>

\* the aggregate grouped by position answers and the response is sent
StatsByPosition ==
    /\ rev.pc = "byPosition"
    /\ \E s \in SortedByCount(Group(store, "position")) :
         rev' = [rev EXCEPT !.pc = "idle", !.items = <<>>,
                   !.resp = [status |-> 200, error |-> "",
                             data |-> <<[totalApplications |-> rev.items[1].totalApplications,
                                         applicationsByStatus |-> rev.items[1].applicationsByStatus,
                                         applicationsByPosition |-> FirstN(s, StatsLimit)]>>,
                             pagination |-> <<>>]]
    /\ UNCHANGED <<store, now, post>>

\* ---------------------------------------------------------------- admin runs
\* the submissions of the admin runs: two keys with one position
AdminBodies ==
    {BaseBody,
     [BaseBody EXCEPT !.email = <<"d", "@", "b", ".", "c">>]}

AdminQueries == {NoQuery}

\* one applicant client and one reviewer who lists, reveals, updates statuses
\* and reads the statistics
NextAdmin ==
    \/ Tick
    \/ \E b \in AdminBodies, r \in Rands : Receive("s1", b, r)
    \/ Find("s1")
    \/ Save("s1")
    \/ \E q \in AdminQueries : ListReceive(q)
    \/ ListFind
    \/ ListCount
    \/ \E id \in AllIds : GetContact(id)
    \/ \E id \in PatchIds, status \in PatchStatuses : PatchStatus(id, status)
    \/ StatsCount
    \/ StatsByStatus
    \/ StatsByPosition

SpecAdmin == Init /\ [][NextAdmin]_vars

\* =================================================================== claims
CollisionError == "Duplicate application detected. Please try again."

\* submitter p ends a request in this step
Answers(p) == post'[p] # post[p] /\ post'[p].pc = "idle"

\* the (email, position) key a submission is meant to be unique on
NormKey(b) == <<ToLowerCase(Trim(b.email)), Trim(b.position)>>
KeyStored(docs, k) == \E i \in 1..Len(docs) : <<docs[i].email, docs[i].position>> = k

\* C1: no two stored records share the same (normalized email, position)
\* pair, also when the pre-check and the save of two submissions interleave.
C1_UniqueEmailPosition ==
    \A i, j \in 1..Len(store) :
        i # j => <<store[i].email, store[i].position>> # <<store[j].email, store[j].position>>

\* a submission that meets the field rules of the validation layer
SpecValid(b) ==
    /\ Len(Trim(b.name)) >= 2
    /\ validateEmail(b.email)
    /\ validatePhone(b.phone)
    /\ Len(Trim(b.position)) >= 2
    /\ b.experience >= 0 /\ b.experience <= 50
    /\ LET sk == IF b.skills.isArray
                 THEN SelectSeq(MapTrim(b.skills.arr), NonEmptyStr)
                 ELSE SelectSeq(MapTrim(SplitComma(b.skills.str)), NonEmptyStr)
       IN sk # <<>>
    /\ Len(Trim(b.education)) >= 2

\* a record with key k that a submission meeting those rules has left
ValidStored(docs, k) ==
    \E i \in 1..Len(docs) :
        /\ <<docs[i].email, docs[i].position>> = k
        /\ Len(docs[i].name) >= 2
        /\ Len(docs[i].education) >= 2
        /\ SelectSeq(docs[i].skills, NonEmptyStr) # <<>>

\* C2: a valid submission processed after a valid submission with the same
\* (email, position) pair was stored is answered 409 and adds no record,
\* whatever its name, phone, experience, skills and education are.
C2_SecondIsDuplicate ==
    [][\A p \in Submitters :
         (Answers(p) /\ SpecValid(post'[p].body[1])
            /\ ValidStored(store, NormKey(post'[p].body[1])))
         => (post'[p].resp.status = 409 /\ store' = store)]_vars

\* C3: the anonymousId a 201 returns differs from the anonymousId of every
\* record already stored, and anonymousId is unique across the store.
C3_IdsUnique ==
    \A i, j \in 1..Len(store) : i # j => store[i].anonymousId # store[j].anonymousId

C3_FreshOn201 ==
    \A p \in Submitters :
        (Answers(p) /\ post'[p].resp.status = 201)
        => \A i \in 1..Len(store) : store[i].anonymousId # post'[p].resp.anonymousId

C3_AnonymousIdFresh == []C3_IdsUnique /\ [][C3_FreshOn201]_vars

\* two records stored, and a third submission whose generated id collided
C3_Witness ==
    /\ Len(store) >= 2
    /\ \E p \in Submitters : post[p].resp.error = CollisionError

\* C4: a write that fails on an anonymousId collision is re-attempted with a
\* regenerated id; the error surfaces only after more than one attempt.
C4_CollisionRetried ==
    \A p \in Submitters : post[p].resp.error = CollisionError => post[p].saves >= 2

\* C5: a submission answers 201 and adds exactly one complete record, or
\* answers an error and leaves the store as it was.
DocFields == {"anonymousId", "name", "email", "phone", "position", "experience",
              "skills", "education", "submittedAt", "status"}

Complete(doc, b) ==
    /\ DOMAIN doc = DocFields
    /\ doc.name = Trim(b.name) /\ doc.name # <<>>
    /\ doc.email = ToLowerCase(Trim(b.email)) /\ doc.email # <<>>
    /\ doc.phone = Trim(b.phone) /\ doc.phone # <<>>
    /\ doc.position = Trim(b.position) /\ doc.position # <<>>
    /\ doc.education = Trim(b.education) /\ doc.education # <<>>
    /\ doc.experience = b.experience
    /\ doc.anonymousId # <<>>
    /\ doc.submittedAt \in 0..now
    /\ doc.status = "pending"

C5_Step(p) ==
    IF Answers(p) /\ post'[p].resp.status = 201
    THEN /\ Len(store') = Len(store) + 1
         /\ SubSeq(store', 1, Len(store)) = store
         /\ Complete(store'[Len(store')], post'[p].body[1])
         /\ store'[Len(store')].anonymousId = post'[p].resp.anonymousId
    ELSE /\ post'[p] # post[p] => store' = store
         /\ Answers(p) => post'[p].resp.status \in {400, 409, 500}

C5_Atomic == [][\A p \in Submitters : C5_Step(p)]_vars

\* one submission stored, one refused by the schema, both submitters done
C5_Witness ==
    /\ Len(store) >= 1
    /\ \E p, q \in Submitters :
          /\ post[p].resp.status = 201
          /\ post[q].resp.status = 500
          /\ post[q].resp.error = "Internal server error"

\* C9: an otherwise valid submission is rejected by validation exactly when
\* its experience is below 0 or above 50.
OtherwiseValid(b) == ValidationResp([b EXCEPT !.experience = 1]) = NoResp

Handled(p) == post[p].body # <<>>

C9_ExperienceRange ==
    \A p \in Submitters :
        (Handled(p) /\ OtherwiseValid(post[p].body[1]))
        => ((post[p].pc = "idle" /\ post[p].resp.status = 400)
              <=> (post[p].body[1].experience < 0 \/ post[p].body[1].experience > 50))

\* C10: every stored skills sequence is non-empty and holds only trimmed,
\* non-empty strings, for skills sent as a string or as an array.
C10_StoredSkills ==
    \A i \in 1..Len(store) :
        /\ Len(store[i].skills) > 0
        /\ \A k \in 1..Len(store[i].skills) :
              store[i].skills[k] # <<>> /\ Trim(store[i].skills[k]) = store[i].skills[k]

ContactFields == {"name", "email", "phone"}

\* C6: no item of a list response, and no item fetched for one, carries
\* name, email or phone, whatever the filters and the paging are.
C6_ListAnonymized ==
    /\ \A k \in 1..Len(rev.items) : DOMAIN rev.items[k] \cap ContactFields = {}
    /\ rev.kind = "list" =>
          \A k \in 1..Len(rev.resp.data) : DOMAIN rev.resp.data[k] \cap ContactFields = {}

\* a list answered under position, skills and experience filters, with items
C6_Witness ==
    /\ rev.kind = "list"
    /\ rev.resp.status = 200
    /\ Len(rev.resp.data) >= 1
    /\ rev.query[1].position # <<>>
    /\ rev.query[1].skills # <<>>
    /\ rev.query[1].minExperience # <<>>

\* C7: the reveal answers with exactly {name, email, phone} of the one record
\* whose anonymousId equals the identifier, and with 404 for every other
\* identifier, prefixes and patterns of stored identifiers included.
C7_Step ==
    (rev' # rev /\ rev'.kind = "contact")
    => LET exact == {i \in 1..Len(store) : store[i].anonymousId = rev'.id} IN
       IF exact = {}
       THEN rev'.resp.status = 404 /\ rev'.resp.data = <<>>
       ELSE /\ rev'.resp.status = 200
            /\ \E i \in exact :
                 rev'.resp.data = <<[name |-> store[i].name, email |-> store[i].email,
                                     phone |-> store[i].phone]>>

C7_ContactExact == [][C7_Step]_vars

\* a reveal answered 200 while the store holds several records
C7_Witness ==
    /\ rev.kind = "contact"
    /\ rev.resp.status = 200
    /\ Len(store) >= 2

\* C8: round trip. A stored applicant A is among the items of a list request
\* whose only filter is A's position, and the reveal of A's anonymousId
\* returns A's submitted name, email and phone, trimmed and lower-cased.
AnonymizedView(doc) ==
    [anonymousId |-> doc.anonymousId, position |-> doc.position,
     experience |-> doc.experience, skills |-> doc.skills, education |-> doc.education,
     submittedAt |-> doc.submittedAt, status |-> doc.status]

OwnPositionQuery(doc) == [NoQuery EXCEPT !.position = doc.position]

C8_Step ==
    /\ \A p \in Submitters :
         (Answers(p) /\ post'[p].resp.status = 201)
         => LET A == store'[Len(store')] IN
            /\ A.name = Trim(post'[p].body[1].name)
            /\ A.email = ToLowerCase(Trim(post'[p].body[1].email))
            /\ A.phone = Trim(post'[p].body[1].phone)
    /\ \A i \in 1..Len(store) :
         /\ (rev.pc = "idle" /\ rev' # rev /\ rev'.kind = "list"
               /\ rev'.query[1] = OwnPositionQuery(store[i]))
            => rev'.pc = "find"
         /\ (rev.pc = "find" /\ rev'.pc = "count" /\ rev.query[1] = OwnPositionQuery(store[i]))
            => \E k \in 1..Len(rev'.items) : rev'.items[k] = AnonymizedView(store[i])
         /\ (rev' # rev /\ rev'.kind = "contact" /\ rev'.id = store[i].anonymousId)
            => /\ rev'.resp.status = 200
               /\ rev'.resp.data = <<[name |-> store[i].name, email |-> store[i].email,
                                      phone |-> store[i].phone]>>

C8_RoundTrip == [][C8_Step]_vars

\* C11: every list response reports a page of at least 1 and a limit within
\* [1, 50] (page 0 becomes 1, limit 1000 becomes 50, absent values become 1
\* and 10), holds at most limit items, and for a page beyond totalPages holds
\* no item and hasNext false.
C11_Paging ==
    (rev.kind = "list" /\ rev.resp.status = 200)
    => LET q == rev.query[1]
           pg == rev.resp.pagination[1]
       IN /\ pg.page # NaN /\ pg.page[1] >= 1
          /\ pg.limit # NaN /\ pg.limit[1] >= 1 /\ pg.limit[1] <= 50
          /\ q.page \in {<<>>, <<"0">>} => pg.page[1] = 1
          /\ q.limit = <<>> => pg.limit[1] = 10
          /\ q.limit = <<"1", "0", "0", "0">> => pg.limit[1] = 50
          /\ Len(rev.resp.data) <= pg.limit[1]
          /\ pg.page[1] > pg.totalPages[1] => (rev.resp.data = <<>> /\ ~pg.hasNext)

\* C12: every stored record has one of the four statuses, a record is created
\* pending and its status changes only in a successful status update on it;
\* no step changes any other field of a stored record or removes a record.
C12_Step ==
    /\ Len(store') >= Len(store)
    /\ \A i \in 1..Len(store') :
         /\ DOMAIN store'[i] = DocFields
         /\ store'[i].status \in {"pending", "reviewed", "contacted", "rejected"}
    /\ \A i \in (Len(store) + 1)..Len(store') : store'[i].status = "pending"
    /\ \A i \in 1..Len(store) :
         /\ \A f \in DocFields \ {"status"} : store'[i][f] = store[i][f]
         /\ store'[i].status # store[i].status
            => /\ rev.pc = "idle" /\ rev'.kind = "status" /\ rev'.resp.status = 200
               /\ rev'.id = store[i].anonymousId
               /\ rev'.resp.data[1].status = store'[i].status

C12_StatusOnly == [][C12_Step]_vars

\* two records, one updated away from pending and one still pending, after
\* the reviewer has listed, revealed, updated and read the statistics
C12_Witness ==
    /\ Len(store) = 2
    /\ store[1].status = "contacted" /\ store[2].status = "pending"
    /\ rev.kind = "stats" /\ rev.resp.status = 200

\* a step of the status update: the reviewer goes from idle to an answered
\* status request while no submission moves
PatchStep == rev.pc = "idle" /\ rev'.kind = "status" /\ UNCHANGED <<now, post>>

\* C13: a status update with a status outside the four values, or none,
\* answers 400, and with a valid status and an unknown identifier 404, both
\* leaving the store as it was; with a valid status and a known identifier
\* it sets that record's status, whatever it was, and answers exactly
\* {anonymousId, status} with the new value.
C13_Step ==
    PatchStep =>
      LET status == rev'.query[1].status
          id == rev'.id
          valid == status # <<>> /\ status[1] \in {"pending", "reviewed", "contacted", "rejected"}
          known == {i \in 1..Len(store) : store[i].anonymousId = id}
      IN /\ ~valid => (rev'.resp.status = 400 /\ rev'.resp.data = <<>> /\ store' = store)
         /\ (valid /\ known = {})
            => (rev'.resp.status = 404 /\ rev'.resp.data = <<>> /\ store' = store)
         /\ (valid /\ known # {})
            => /\ rev'.resp.status = 200
               /\ rev'.resp.data = <<[anonymousId |-> id, status |-> status[1]]>>
               /\ \E i \in known : store' = [store EXCEPT ![i].status = status[1]]

C13_StatusUpdate == [][C13_Step]_vars

\* the second of two records has just been set to rejected while the first
\* stands at reviewed
C13_Witness ==
    /\ rev.kind = "status" /\ rev.resp.status = 200
    /\ rev.resp.data[1].status = "rejected"
    /\ Len(store) = 2
    /\ store[2].anonymousId = rev.id /\ store[2].status = "rejected"
    /\ store[1].status = "reviewed"

RECURSIVE SumCounts(_)
SumCounts(groups) ==
    IF groups = {} THEN 0
    ELSE LET g == CHOOSE x \in groups : TRUE IN g.count + SumCounts(groups \ {g})

\* C14: in every stats response the counts by status sum to totalApplications
\* and each count by position is at most totalApplications.
C14_StatsConsistent ==
    (rev.kind = "stats" /\ rev.resp.status = 200)
    => LET d == rev.resp.data[1] IN
       /\ SumCounts(d.applicationsByStatus) = d.totalApplications
       /\ \A k \in 1..Len(d.applicationsByPosition) :
            d.applicationsByPosition[k].count <= d.totalApplications

====
